---- MODULE Spec2Model ----
(***************************************************************************)
(* The contract-dependency graph component (GraphLayout) of crystal-clear: *)
(* the model builder inside drawGraph, the highlight effect, the drag      *)
(* handlers, the hover enrichment, the flow-dot animation loop and the     *)
(* unmount cleanup, as a state machine.                                    *)
(*                                                                         *)
(* Numbers that are fractions in the source (opacities, stroke widths,     *)
(* alpha) are kept in hundredths: 0.6 is 60, Math.sqrt(c) is the integer   *)
(* part of 100 * sqrt(c).                                                  *)
(***************************************************************************)
EXTENDS Integers, Sequences, FiniteSets, TLC

(***************************************************************************)
(* Strings.  An address is a sequence of characters, so that toLowerCase   *)
(* is computed character by character and "0xAAA" and "0xaaa" are          *)
(* different strings with the same lower-case form.                        *)
(***************************************************************************)
LowerChar(c) ==
    CASE c = "A" -> "a"
      [] c = "B" -> "b"
      [] c = "C" -> "c"
      [] OTHER -> c

toLowerCase(s) == [i \in DOMAIN s |-> LowerChar(s[i])]

Addr(c) == <<"0", "x", c, c, c>>

\* undefined and null where the source has a string, a number or nothing.
\* Numbers that share a field with them are wrapped by Num.
Missing == <<"undefined">>
Null == <<"null">>
Num(n) == <<"number", n>>

\* undefined where the source has an array, null where it has an object.
NoEdges == <<[undefined |-> TRUE]>>
NullObject == [null |-> TRUE]

(***************************************************************************)
(* Payloads (GraphData).  edge.types is an object; it is kept as the       *)
(* sequence of its entries in property order, which is what Object.entries *)
(* returns for string keys.                                                *)
(***************************************************************************)
Entry(t, c) == [type |-> t, count |-> c]

TypeMaps ==
    { <<>>,
      <<Entry("call", 3)>>,
      <<Entry("delegatecall", 1), Entry("call", 4)>> }

BuildAddresses == {Addr("A"), Addr("a"), Addr("B")}

RawEdges == [source : BuildAddresses, target : BuildAddresses, types : TypeMaps]

\* The longest edge list of a generated payload.
MaxEdges == 2

EdgeLists == UNION {[1..n -> RawEdges] : n \in 0..MaxEdges}

BuildPayloads ==
    [address : BuildAddresses \cup {Missing}, edges : EdgeLists \cup {NoEdges}]

(***************************************************************************)
(* The model builder of drawGraph.                                         *)
(***************************************************************************)
ObjectEntries(types) == types

\* Faulty variant of EdgeLinks: one link per edge, for its first kind only.
EdgeLinksFirstKind(edge) ==
    LET es == ObjectEntries(edge.types)
    IN  [i \in 1..(IF es = <<>> THEN 0 ELSE 1) |->
            [source |-> edge.source, target |-> edge.target,
             type |-> es[i].type, count |-> es[i].count]]

\* edge => Object.entries(edge.types || {}).map(([type, count]) => ({...}))
EdgeLinks(edge) ==
    LET es == ObjectEntries(edge.types)
    IN  [i \in 1..Len(es) |->
            [source |-> edge.source, target |-> edge.target,
             type |-> es[i].type, count |-> es[i].count]]

RECURSIVE FlatMap(_)
FlatMap(edges) ==
    IF edges = <<>> THEN <<>>
    ELSE EdgeLinks(Head(edges)) \o FlatMap(Tail(edges))

\* (data.edges || []).flatMap(...)
BuildLinks(data) ==
    FlatMap(IF data.edges = NoEdges THEN <<>> ELSE data.edges)

\* Faulty variant of SetAdd: a new value goes to the front.
SetAddFront(set, v) ==
    IF \E i \in 1..Len(set) : set[i] = v THEN set ELSE <<v>> \o set

\* Set.prototype.add on an insertion-ordered Set of strings, compared with
\* SameValueZero: the strings as given, upper and lower case distinct.
SetAdd(set, v) ==
    IF \E i \in 1..Len(set) : set[i] = v THEN set ELSE Append(set, v)

RECURSIVE NodeSet(_, _)
NodeSet(ls, acc) ==
    IF ls = <<>> THEN acc
    ELSE NodeSet(Tail(ls), SetAdd(SetAdd(acc, Head(ls).source), Head(ls).target))

\* nodeSet after links.forEach(...)
BuildNodeSet(ls) == NodeSet(ls, <<>>)

\* id.toLowerCase() === data.address.toLowerCase() ? "main" : "other"
GroupOf(id, address) ==
    IF toLowerCase(id) = toLowerCase(address) THEN "main" ELSE "other"

\* Faulty variant of BuildThrows: data.address.toLowerCase() hoisted out of the map,
\* so that it is evaluated even when there is no node.
BuildThrowsHoisted(data) == data.address = Missing

\* data.address.toLowerCase() is evaluated once per node: with no address it
\* throws a TypeError as soon as there is a node.
BuildThrows(data) ==
    data.address = Missing /\ BuildNodeSet(BuildLinks(data)) # <<>>

(***************************************************************************)
(* Rendering constants of drawGraph and of the highlight effect.           *)
(***************************************************************************)
LinkStroke == "#999"
DirectStroke == "#ff6666"
TransitiveStroke == "#ff9933"
LinkStrokeOpacity == 60
DimStrokeOpacity == 10
FullOpacity == 100
FocusStrokeOpacity == 100
DimOpacity == 20
NodeStrokeWidth == 150
FocusStrokeWidth == 300
DotOpacity == 70

\* The integer part of the square root of n, by bisection on lo..hi.
RECURSIVE Bisect(_, _, _)
Bisect(n, lo, hi) ==
    IF lo >= hi THEN lo
    ELSE LET mid == (lo + hi + 1) \div 2
         IN  IF mid * mid <= n THEN Bisect(n, mid, hi) ELSE Bisect(n, lo, mid - 1)

\* Faulty variant of StrokeWidth: 1 / Math.sqrt(d.count).
StrokeWidthInverse(count) == 10000 \div Bisect(count * 10000, 0, count * 100)

\* .attr("stroke-width", (d) => Math.sqrt(d.count)), in hundredths
StrokeWidth(count) == Bisect(count * 10000, 0, count * 100)

\* `link-${sourceId} link-${targetId}`: the two class names of a line
LinkClass(l) == {toLowerCase(l.source), toLowerCase(l.target)}

\* `node-${d.id.toLowerCase()}`
NodeClass(id) == toLowerCase(id)

(***************************************************************************)
(* State.                                                                  *)
(***************************************************************************)
VARIABLES
    feed,              \* the payloads the query layer can deliver
    deliveries,        \* how many payloads have arrived
    mounted,           \* GraphLayout is mounted (svgRef.current is set)
    jsonData,          \* prop jsonData: a payload or Null
    highlightAddress,  \* prop highlightAddress: a lower-case address or Null
    inputAddress,      \* prop inputAddress
    graphDrawnRef,     \* graphDrawnRef.current
    dimensions,        \* state dimensions is set
    panelRefs,         \* which of svgSelection, gSelection, zoomBehavior are set
    scene,             \* the children of the svg element and its zoom listener
    links,             \* the Link objects bound to the rendered lines
    nodes,             \* the Node objects bound to the rendered circles
    linkAttr,          \* per line: class, stroke-width, stroke-opacity, stroke
    nodeAttr,          \* per node circle: class, opacity, stroke-width
    dots,              \* per flow dot: opacity, stroke-width, animation phase
    stale,             \* animations of dots already removed from the document
    sim,               \* the simulation created by the last completed draw
    simulationRef,     \* simulationRef.current points at sim, or is Null
    orphans,           \* earlier simulations that were never stopped
    draggingRef,       \* draggingRef.current
    gestures,          \* per pointer: the node it drags, if any
    hoveredNodeId,     \* state hoveredNodeId
    hoveredNodeInfo,   \* state hoveredNodeInfo
    fetches,           \* enrichment requests in flight
    drawError,         \* drawGraph threw
    lateCallbacks,     \* callbacks run after the unmount cleanup
    transform,         \* the zoom transform kept by the svg element (__zoom)
    gTransform,        \* the transform attribute of the group
    currentTab,        \* AppContext state.currentTab, the sidebar's activeTab
    selectedNode,      \* useGraphAnalysis state selectedNode
    deploymentInfo,    \* ContractGraph state deploymentInfo
    deployFetches,     \* getDeploymentInfo calls in flight, by address
    onNodeClick,       \* prop onNodeClick, by the identity of the function
    onNodeClickRef,    \* onNodeClickRef.current
    invoked,           \* the callback invocations made by the last node click
    hook,              \* useGraphVisualization: its refs and what it rendered
    firstDrawn         \* the attributes shown by the commit that drew the graph

propVars == <<jsonData, highlightAddress, inputAddress>>
drawVars == <<graphDrawnRef, dimensions, panelRefs, scene, links, linkAttr, drawError>>
simVars == <<sim, simulationRef, orphans>>
dragVars == <<draggingRef, gestures>>
hoverVars == <<hoveredNodeId, hoveredNodeInfo, fetches>>

viewVars == <<transform, gTransform>>
pageVars == <<currentTab, selectedNode, deploymentInfo, deployFetches>>
clickVars == <<onNodeClick, onNodeClickRef, invoked>>
appVars == <<pageVars, clickVars, hook, firstDrawn>>

vars == <<feed, deliveries, mounted, propVars, drawVars, nodes, nodeAttr, dots,
          stale, simVars, dragVars, hoverVars, lateCallbacks, viewVars, appVars>>

(***************************************************************************)
(* Inputs of the interactive model.                                        *)
(***************************************************************************)
\* Pointer and node coordinates range over 0..MaxCoord.
MaxCoord == 1
Coords == 0..MaxCoord

\* Drag gestures are told apart by pointer (d3-drag: the mouse or a touch id).
Pointers == {"mouse", "touch"}

\* How many payloads arrive before the query layer goes quiet.
MaxDeliveries == 2

\* The ceiling of the counter of callbacks that run after unmount.
MaxLate == 2

Phases == {"traveling", "fading", "waiting"}

NoGesture == [sim |-> 0, node |-> 0]

\* forceSimulation(nodes) gives every node a position and no pin.
InitialX(i) == i % (MaxCoord + 1)
InitialY(i) == i % (MaxCoord + 1)

\* const nodes = Array.from(nodeSet).map((id) => ({id, group: ...}))
BuildNodes(data, nodeSet) ==
    [i \in 1..Len(nodeSet) |->
        [id |-> nodeSet[i], group |-> GroupOf(nodeSet[i], data.address),
         x |-> InitialX(i), y |-> InitialY(i), fx |-> Missing, fy |-> Missing]]

\* forceSimulation(...): alpha 1, alphaTarget 0, timer running
NewSimulation == [alpha |-> 100, alphaTarget |-> 0, running |-> TRUE]

\* the lines of drawGraph: stroke and stroke-opacity come from the parent group
DrawLine(l) ==
    [class |-> LinkClass(l), strokeWidth |-> StrokeWidth(l.count),
     strokeOpacity |-> LinkStrokeOpacity, stroke |-> LinkStroke]

\* the node circles of drawGraph: opacity and stroke-width not yet set
DrawCircle(n) ==
    [class |-> NodeClass(n.id), opacity |-> Missing, strokeWidth |-> Missing]

\* the flow dots of drawGraph after animateFlowDots started their transitions
DrawDot(l) ==
    [opacity |-> Num(DotOpacity), strokeWidth |-> Missing, phase |-> "traveling",
     style |-> Num(DotOpacity)]

\* The opacity a dot is painted with: the style property of the element
\* takes precedence over its opacity attribute.
Painted(d) == IF d.style # Missing THEN d.style ELSE d.opacity

\* select(svgRef.current).selectAll("*").remove(): transitions and timers of
\* the removed dots stay scheduled
Detach(ds, st) ==
    [ph \in Phases |->
        st[ph] + Cardinality({i \in 1..Len(ds) : ds[i].phase = ph})]

\* gestures in progress keep their window listeners and their node objects
Unrender(g, k) ==
    [p \in Pointers |->
        IF g[p] = NoGesture THEN NoGesture
        ELSE [sim |-> IF g[p].sim = 0 THEN k ELSE g[p].sim, node |-> -1]]

(***************************************************************************)
(* The highlight effect.  selectAll("circle") reaches the node circles and *)
(* the flow dots, selectAll("line") the links.                             *)
(***************************************************************************)
\* Faulty variant of FocusStroke: only an edge leaving the subject is direct.
FocusStrokeSourceOnly(l, address) ==
    IF toLowerCase(l.source) = toLowerCase(address)
    THEN DirectStroke ELSE TransitiveStroke

\* sourceId === address || targetId === address ? "#ff6666" : "#ff9933"
FocusStroke(l, address) ==
    IF \/ toLowerCase(l.source) = toLowerCase(address)
       \/ toLowerCase(l.target) = toLowerCase(address)
    THEN DirectStroke ELSE TransitiveStroke

\* .attr("opacity", 1).attr("stroke-width", 1.5) on every circle
ResetCircle(c) ==
    [c EXCEPT !.opacity = Num(FullOpacity), !.strokeWidth = Num(NodeStrokeWidth)]

\* selectAll("circle").attr("opacity", 0.2)
DimCircle(c) == [c EXCEPT !.opacity = Num(DimOpacity)]

\* selectAll(`.node-${highlightAddress}`).attr("opacity", 1).attr("stroke-width", 3)
FocusCircle(c) ==
    [c EXCEPT !.opacity = Num(FullOpacity), !.strokeWidth = Num(FocusStrokeWidth)]

\* Faulty variant of HighlightCircle: no reset, and the others are dimmed to a fifth
\* of the opacity they have.
HighlightCircleRelative(c, h) ==
    IF h = Null THEN ResetCircle(c)
    ELSE IF c.class = h THEN FocusCircle(c)
         ELSE [c EXCEPT !.opacity =
                   Num(IF @ = Missing THEN DimOpacity ELSE (@[2] * DimOpacity) \div 100),
                        !.strokeWidth = Num(NodeStrokeWidth)]

HighlightCircle(c, h) ==
    IF h = Null THEN ResetCircle(c)
    ELSE IF c.class = h THEN FocusCircle(DimCircle(ResetCircle(c)))
         ELSE DimCircle(ResetCircle(c))

\* a flow dot is a circle of class flow-dot: reset and dimmed, never focused
HighlightDot(d, h) ==
    IF h = Null THEN ResetCircle(d) ELSE DimCircle(ResetCircle(d))

\* Faulty variant of ResetLine: the stroke colour is left as it is.
ResetLineOpacityOnly(a) == [a EXCEPT !.strokeOpacity = LinkStrokeOpacity]

\* .attr("stroke-opacity", 0.6).attr("stroke", "#999") on every line
ResetLine(a) ==
    [a EXCEPT !.strokeOpacity = LinkStrokeOpacity, !.stroke = LinkStroke]

\* selectAll("line").attr("stroke-opacity", 0.1)
DimLine(a) == [a EXCEPT !.strokeOpacity = DimStrokeOpacity]

\* selectAll(`line.link-${highlightAddress}`).attr("stroke-opacity", 1).attr("stroke", ...)
FocusLine(a, l, address) ==
    [a EXCEPT !.strokeOpacity = FocusStrokeOpacity,
              !.stroke = FocusStroke(l, address)]

HighlightLine(a, l, h, address) ==
    IF h = Null THEN ResetLine(a)
    ELSE IF h \in a.class THEN FocusLine(DimLine(ResetLine(a)), l, address)
         ELSE DimLine(ResetLine(a))

\* The effect on the elements given; it returns early without a payload.
HighlightEffect(data, h, circles, ds, lines, ls) ==
    IF data = NullObject
    THEN [nodeAttr |-> circles, dots |-> ds, linkAttr |-> lines]
    ELSE [nodeAttr |-> [i \in 1..Len(circles) |-> HighlightCircle(circles[i], h)],
          dots |-> [i \in 1..Len(ds) |-> HighlightDot(ds[i], h)],
          linkAttr |-> [i \in 1..Len(lines) |->
                           HighlightLine(lines[i], ls[i], h, data.address)]]

(***************************************************************************)
(* Initial state: GraphLayout mounted with no payload yet.                 *)
(***************************************************************************)
\* d3's zoomIdentity, the scale in hundredths
zoomIdentity == [k |-> 100, x |-> 0, y |-> 0]

\* initialState.currentTab of the AppContext
InitialTab == "Risk Score"

\* the tabs of the sidebar's tab bar
Tabs == {"Risk Details", "Interactions", "Dependency"}

\* the functions the application passes as onNodeClick, by identity
Callbacks == {"handleNodeClick", "replaced"}

\* useGraphVisualization before its first draw and after cleanup()
NewHook ==
    [graphDrawnRef |-> FALSE, simulationRef |-> FALSE, data |-> NullObject,
     links |-> <<>>, nodes |-> <<>>, listener |-> Null]

NothingDrawn == [nodeAttr |-> <<>>, linkAttr |-> <<>>]

NoStale == [ph \in Phases |-> 0]

InitWith(payloads) ==
    /\ feed = payloads
    /\ deliveries = 0
    /\ mounted = TRUE
    /\ jsonData = NullObject
    /\ highlightAddress = Null
    /\ inputAddress = <<>>
    /\ graphDrawnRef = FALSE
    /\ dimensions = FALSE
    /\ panelRefs = {}
    /\ scene = {}
    /\ links = <<>>
    /\ nodes = <<>>
    /\ linkAttr = <<>>
    /\ nodeAttr = <<>>
    /\ dots = <<>>
    /\ stale = NoStale
    /\ sim = NullObject
    /\ simulationRef = Null
    /\ orphans = <<>>
    /\ draggingRef = FALSE
    /\ gestures = [p \in Pointers |-> NoGesture]
    /\ hoveredNodeId = Null
    /\ hoveredNodeInfo = NullObject
    /\ fetches = {}
    /\ drawError = FALSE
    /\ lateCallbacks = 0
    /\ transform = zoomIdentity
    /\ gTransform = NullObject
    /\ currentTab = InitialTab
    /\ selectedNode = Null
    /\ deploymentInfo = NullObject
    /\ deployFetches = {}
    /\ onNodeClick = "handleNodeClick"
    /\ onNodeClickRef = "handleNodeClick"
    /\ invoked = <<>>
    /\ hook = NewHook
    /\ firstDrawn = NothingDrawn

(***************************************************************************)
(* drawGraph(data), called by the draw effect right after it reset         *)
(* graphDrawnRef, followed by the highlight effect of the same commit.     *)
(* An exception of drawGraph leaves the effect and reaches the             *)
(* ErrorBoundary around the application, which renders its fallback in     *)
(* place of the tree: GraphLayout unmounts and its cleanup runs, with      *)
(* svgRef.current still set (refSet) or already detached.                  *)
(***************************************************************************)
drawGraph(data, h) ==
    LET ls == BuildLinks(data)
        nodeSet == BuildNodeSet(ls)
        ns == BuildNodes(data, nodeSet)
        lit == HighlightEffect(data, h,
                   [i \in 1..Len(ns) |-> DrawCircle(ns[i])],
                   [i \in 1..Len(ls) |-> DrawDot(ls[i])],
                   [i \in 1..Len(ls) |-> DrawLine(ls[i])], ls)
    IN  /\ dimensions' = TRUE
        /\ gTransform' = NullObject
        /\ stale' = Detach(dots, stale)
        /\ firstDrawn' = IF BuildThrows(data) THEN NothingDrawn
                         ELSE [nodeAttr |-> lit.nodeAttr, linkAttr |-> lit.linkAttr]
        /\ panelRefs' = IF BuildThrows(data) THEN {}
                        ELSE {"svgSelection", "gSelection", "zoomBehavior"}
        /\ IF BuildThrows(data)
           THEN /\ \E refSet \in BOOLEAN :
                      scene' = IF refSet THEN {} ELSE {"rect", "g", "zoom"}
                /\ links' = <<>>
                /\ nodes' = <<>>
                /\ linkAttr' = <<>>
                /\ nodeAttr' = <<>>
                /\ dots' = <<>>
                /\ gestures' = Unrender(gestures, 0)
                /\ graphDrawnRef' = FALSE
                /\ drawError' = TRUE
                /\ mounted' = FALSE
                /\ sim' = IF simulationRef # Null
                          THEN [sim EXCEPT !.running = FALSE] ELSE sim
                /\ simulationRef' = Null
                /\ UNCHANGED orphans
           ELSE /\ scene' = {"rect", "g", "zoom", "links", "flow-dots-layer",
                             "nodes", "labels"}
                /\ mounted' = mounted
                /\ links' = ls
                /\ nodes' = ns
                /\ linkAttr' = lit.linkAttr
                /\ nodeAttr' = lit.nodeAttr
                /\ dots' = lit.dots
                /\ gestures' = Unrender(gestures, Len(orphans) + 1)
                /\ orphans' = IF sim = NullObject THEN orphans
                              ELSE Append(orphans, sim)
                /\ sim' = NewSimulation
                /\ simulationRef' = <<"simulation">>
                /\ graphDrawnRef' = TRUE
                /\ drawError' = FALSE

\* useEffect(() => { if (jsonData) { graphDrawnRef.current = false;
\* drawGraph(jsonData) } }, [jsonData]) for a new jsonData object; the page's
\* effect on jsonData switches the sidebar to "Risk Details"
PayloadArrives(p) ==
    /\ mounted
    /\ deliveries < MaxDeliveries
    /\ deliveries' = deliveries + 1
    /\ jsonData' = p
    /\ drawGraph(p, highlightAddress)
    /\ currentTab' = "Risk Details"
    /\ UNCHANGED <<transform, feed, highlightAddress, inputAddress, draggingRef,
                   hoverVars, lateCallbacks, selectedNode, deploymentInfo,
                   deployFetches, clickVars, hook>>

\* jsonData becomes null (the query key changed): the draw effect does
\* nothing and the highlight effect returns at once
PayloadCleared ==
    /\ mounted
    /\ jsonData # NullObject
    /\ jsonData' = NullObject
    /\ UNCHANGED <<appVars, viewVars, feed, deliveries, mounted, highlightAddress, inputAddress,
                   drawVars, nodes, nodeAttr, dots, stale, simVars, dragVars,
                   hoverVars, lateCallbacks>>

\* The highlight effect alone, for the props given.
RunHighlight(data, h) ==
    LET lit == HighlightEffect(data, h, nodeAttr, dots, linkAttr, links)
    IN  /\ nodeAttr' = lit.nodeAttr
        /\ dots' = lit.dots
        /\ linkAttr' = lit.linkAttr

\* Interactions row onClick: toggle the focus on the row's target
RowClick(e) ==
    LET target == toLowerCase(jsonData.edges[e].target)
        h == IF highlightAddress = target THEN Null ELSE target
    IN  /\ mounted
        /\ highlightAddress' = h
        /\ RunHighlight(jsonData, h)
        /\ UNCHANGED <<appVars, viewVars, feed, deliveries, mounted, jsonData, inputAddress,
                       graphDrawnRef, dimensions, panelRefs, scene, links,
                       drawError, nodes, stale, simVars, dragVars, hoverVars,
                       lateCallbacks>>

\* The page's effect on inputAddress: if (!inputAddress) return; otherwise
\* getDeploymentInfo(inputAddress) is called and awaited.  No request is
\* ever cancelled.  Two requests in flight for one address resolve alike
\* and are kept as one.
StartFetch(pending, a) == IF a = <<>> THEN pending ELSE pending \cup {a}

\* Faulty variant of InputAddressChange: the draw effect has inputAddress as
\* a dependency too and draws the payload it already drew.
InputAddressChangeRedraws(a) ==
    /\ mounted
    /\ a # inputAddress
    /\ jsonData # NullObject
    /\ inputAddress' = a
    /\ drawGraph(jsonData, highlightAddress)
    /\ deployFetches' = StartFetch(deployFetches, a)
    /\ UNCHANGED <<transform, feed, deliveries, jsonData, highlightAddress,
                   draggingRef, hoverVars, lateCallbacks, currentTab,
                   selectedNode, deploymentInfo, clickVars, hook>>

\* inputAddress changes (typing in the header): the highlight effect has it
\* as a dependency and runs again with the same highlightAddress, and the
\* page asks for the deployment info of the new address
InputAddressChange(a) ==
    /\ mounted
    /\ a # inputAddress
    /\ inputAddress' = a
    /\ RunHighlight(jsonData, highlightAddress)
    /\ deployFetches' = StartFetch(deployFetches, a)
    /\ UNCHANGED <<currentTab, selectedNode, deploymentInfo, clickVars, hook,
                   firstDrawn>>
    /\ UNCHANGED <<viewVars, feed, deliveries, mounted, jsonData, highlightAddress,
                   graphDrawnRef, dimensions, panelRefs, scene, links,
                   drawError, nodes, stale, simVars, dragVars, hoverVars,
                   lateCallbacks>>

\* The "No dependencies found" overlay of the render:
\* jsonData && jsonData.edges && jsonData.edges.length === 0
EmptyMessageShown ==
    /\ mounted
    /\ jsonData # NullObject
    /\ jsonData.edges # NoEdges
    /\ Len(jsonData.edges) = 0

(***************************************************************************)
(* The model builder on generated payloads: one payload per behaviour,     *)
(* drawn once.                                                             *)
(***************************************************************************)
InitBuild == \E p \in BuildPayloads : InitWith({p})

Deliver == \E p \in feed : PayloadArrives(p)

FirstDraw == deliveries = 0 /\ Deliver

NextBuild == FirstDraw

SpecBuild == InitBuild /\ [][NextBuild]_vars

\* The payload has an edge list and drawGraph ran to its end on it.
Built == graphDrawnRef /\ jsonData # NullObject /\ jsonData.edges # NoEdges

Endpoints(edges) ==
    {edges[i].source : i \in 1..Len(edges)} \cup {edges[i].target : i \in 1..Len(edges)}

Lower(S) == {toLowerCase(a) : a \in S}

\* C1: the built nodes hold one node per unique lower-case address: no two
\* nodes have ids that differ only in letter case.
C1_OneNodePerLowerCaseAddress ==
    Built => \A i, j \in 1..Len(nodes) :
                 toLowerCase(nodes[i].id) = toLowerCase(nodes[j].id) => i = j

\* C2: every endpoint of every edge of the payload is a built node (also
\* when the edge has no interaction kinds), and there are no nodes exactly
\* when there are no edges.
C2_EveryEndpointIsANode ==
    Built => /\ Lower(Endpoints(jsonData.edges))
                    \subseteq Lower({nodes[i].id : i \in 1..Len(nodes)})
             /\ (nodes = <<>>) <=> (jsonData.edges = <<>>)

\* C3: when the payload's address is an endpoint of some edge (compared in
\* lower case), exactly one node is "main", it is the node of that address,
\* and all the others are "other".
C3_ExactlyOneMain ==
    (Built /\ jsonData.address # Missing
           /\ toLowerCase(jsonData.address) \in Lower(Endpoints(jsonData.edges)))
    => /\ Cardinality({i \in 1..Len(nodes) : nodes[i].group = "main"}) = 1
       /\ \A i \in 1..Len(nodes) :
              nodes[i].group = (IF toLowerCase(nodes[i].id)
                                     = toLowerCase(jsonData.address)
                                THEN "main" ELSE "other")

\* The number of links the edges before edge e expand to.
RECURSIVE KindsBefore(_, _)
KindsBefore(edges, e) ==
    IF e <= 1 THEN 0
    ELSE KindsBefore(edges, e - 1) + Len(edges[e - 1].types)

\* C4: an edge with k entries in its types map expands to exactly k links,
\* next to each other, with the edge's source and target, one per kind and
\* with that kind's count; the links number the sum of k over the edges.
C4_OneLinkPerKind ==
    Built =>
        LET edges == jsonData.edges
        IN  /\ Len(links) = KindsBefore(edges, Len(edges) + 1)
            /\ Len(linkAttr) = Len(links)
            /\ \A e \in 1..Len(edges) : \A k \in 1..Len(edges[e].types) :
                   LET l == links[KindsBefore(edges, e) + k]
                   IN  /\ l.source = edges[e].source
                       /\ l.target = edges[e].target
                       /\ l.type = edges[e].types[k].type
                       /\ l.count = edges[e].types[k].count

\* C4 witness: two edges drawn, one with two kinds and one with none.
C4_Witness ==
    /\ Built
    /\ Len(jsonData.edges) = 2
    /\ Len(jsonData.edges[1].types) = 2
    /\ Len(jsonData.edges[2].types) = 0
    /\ Len(links) = 2

\* C9: a payload with edges = [] draws to no nodes and no links without an
\* error and shows the "no dependencies" overlay, and the overlay is shown
\* for no payload with a non-empty edge list.
C9_EmptyPayloadIsValid ==
    /\ (jsonData # NullObject /\ jsonData.edges = <<>>)
           => /\ nodes = <<>> /\ links = <<>>
              /\ nodeAttr = <<>> /\ linkAttr = <<>>
              /\ ~drawError /\ graphDrawnRef
              /\ EmptyMessageShown
    /\ EmptyMessageShown => jsonData.edges = <<>>
    /\ (jsonData # NullObject /\ jsonData.edges # NoEdges
            /\ jsonData.edges # <<>>) => ~EmptyMessageShown

\* C9 witness: an empty edge list was drawn, here with no address either.
C9_Witness ==
    /\ jsonData # NullObject
    /\ jsonData.edges = <<>>
    /\ jsonData.address = Missing
    /\ graphDrawnRef
    /\ EmptyMessageShown

(***************************************************************************)
(* Link widths: payloads of one edge with two kinds, over a range of       *)
(* counts.                                                                 *)
(***************************************************************************)
\* The largest interaction count of a generated payload.
MaxCount == 12

WidthPayloads ==
    { [address |-> Addr("A"),
       edges |-> <<[source |-> Addr("A"), target |-> Addr("B"),
                    types |-> <<Entry("call", c1), Entry("staticcall", c2)>>]>>] :
        c1, c2 \in 1..MaxCount }

InitWidth == \E p \in WidthPayloads : InitWith({p})

SpecWidth == InitWidth /\ [][NextBuild]_vars

\* C8: of two rendered links the one with the larger count is at least as
\* wide, the width being the square root of the count (here its integer
\* part, in hundredths).
C8_WidthMonotonic ==
    /\ Len(linkAttr) = Len(links)
    /\ \A a \in 1..Len(links) :
           LET w == linkAttr[a].strokeWidth
           IN  w * w <= links[a].count * 10000
               /\ links[a].count * 10000 < (w + 1) * (w + 1)
    /\ \A a, b \in 1..Len(links) :
           links[a].count > links[b].count
               => linkAttr[a].strokeWidth >= linkAttr[b].strokeWidth

\* C8 witness: two links drawn, the second with the larger count and
\* strictly wider.
C8_Witness ==
    /\ Len(links) = 2
    /\ Len(linkAttr) = 2
    /\ links[1].count = 2
    /\ links[2].count = 9
    /\ linkAttr[1].strokeWidth = 141
    /\ linkAttr[2].strokeWidth = 300

(***************************************************************************)
(* The simulation.  alpha moves towards alphaTarget by a fixed share of    *)
(* the distance per tick; the tick handler stops the timer once alpha is   *)
(* under 0.01.                                                             *)
(***************************************************************************)
AlphaStop == 1
DragAlphaTarget == 30

\* Faulty variant of Step: the handler never stops the simulation.
StepNeverStops(s) == [s EXCEPT !.alpha = s.alphaTarget]

\* tick(): alpha += (alphaTarget - alpha) * alphaDecay, then the handler's
\* if (simulation.alpha() < 0.01) simulation.stop().  One step of the model
\* stands for the run of ticks that takes alpha to its target.
Step(s) ==
    [s EXCEPT !.alpha = s.alphaTarget, !.running = ~(s.alphaTarget < AlphaStop)]

Shift(c, d) == (c + d) % (MaxCoord + 1)

\* One layout step: a pinned coordinate sits on its pin, a free one moves
\* (the forces are not modelled; all free nodes move by the same offset d).
Settle(n, d) ==
    [n EXCEPT !.x = IF n.fx \in {Missing, Null} THEN Shift(n.x, d) ELSE n.fx[2],
              !.y = IF n.fy \in {Missing, Null} THEN Shift(n.y, d) ELSE n.fy[2]]

\* A callback ran; after the unmount cleanup it is counted.
Late == IF mounted THEN lateCallbacks ELSE lateCallbacks + 1
MayRun == mounted \/ lateCallbacks < MaxLate

\* A tick of the simulation of the rendered graph
Tick(d) ==
    /\ MayRun
    /\ sim # NullObject
    /\ sim.running
    /\ sim' = Step(sim)
    /\ nodes' = [i \in 1..Len(nodes) |-> Settle(nodes[i], d)]
    /\ lateCallbacks' = Late
    /\ UNCHANGED <<appVars, viewVars, feed, deliveries, mounted, propVars, drawVars, nodeAttr,
                   dots, stale, simulationRef, orphans, dragVars, hoverVars>>

\* A tick of a simulation whose graph was replaced: its handler writes to
\* the removed elements
OrphanTick(k) ==
    /\ MayRun
    /\ orphans[k].running
    /\ orphans' = [orphans EXCEPT ![k] = Step(orphans[k])]
    /\ lateCallbacks' = Late
    /\ UNCHANGED <<appVars, viewVars, feed, deliveries, mounted, propVars, drawVars, nodes,
                   nodeAttr, dots, stale, sim, simulationRef, dragVars,
                   hoverVars>>

(***************************************************************************)
(* dragHandler(simulation), one drag behaviour per draw.                   *)
(***************************************************************************)
\* Faulty variant of Active: the handlers never see another gesture.
ActiveNone(p, k) == 0

\* event.active: the other gestures of the same drag behaviour
Active(p, k) ==
    Cardinality({q \in Pointers \ {p} :
                    gestures[q] # NoGesture /\ gestures[q].sim = k})

\* simulation.alphaTarget(t) on the simulation of behaviour k
WithTarget(k, t, restart) ==
    IF k = 0
    THEN /\ sim' = [sim EXCEPT !.alphaTarget = t,
                               !.running = IF restart THEN TRUE ELSE @]
         /\ UNCHANGED orphans
    ELSE /\ orphans' = [orphans EXCEPT ![k].alphaTarget = t]
         /\ UNCHANGED sim

\* drag "start" on the circle of node i
DragStart(p, i) ==
    /\ mounted
    /\ gestures[p] = NoGesture
    /\ gestures' = [gestures EXCEPT ![p] = [sim |-> 0, node |-> i]]
    /\ draggingRef' = TRUE
    /\ IF Active(p, 0) = 0
       THEN WithTarget(0, DragAlphaTarget, TRUE)
       ELSE UNCHANGED <<sim, orphans>>
    /\ nodes' = [nodes EXCEPT ![i].fx = Num(nodes[i].x), ![i].fy = Num(nodes[i].y)]
    /\ UNCHANGED <<appVars, viewVars, feed, deliveries, mounted, propVars, drawVars, nodeAttr,
                   dots, stale, simulationRef, hoverVars, lateCallbacks>>

\* drag "drag": the pointer moved to (x, y)
DragMove(p, x, y) ==
    /\ MayRun
    /\ gestures[p] # NoGesture
    /\ nodes' = IF gestures[p].node >= 1
                THEN [nodes EXCEPT ![gestures[p].node].fx = Num(x),
                                   ![gestures[p].node].fy = Num(y)]
                ELSE nodes
    /\ lateCallbacks' = Late
    /\ UNCHANGED <<appVars, viewVars, feed, deliveries, mounted, propVars, drawVars, nodeAttr,
                   dots, stale, simVars, dragVars, hoverVars>>

\* Faulty variant of Unpin: d.fy is left as it is.
UnpinXOnly(n) == [n EXCEPT !.fx = Null]

\* d.fx = null; d.fy = null
Unpin(n) == [n EXCEPT !.fx = Null, !.fy = Null]

\* drag "end"
DragEnd(p) ==
    /\ MayRun
    /\ gestures[p] # NoGesture
    /\ gestures' = [gestures EXCEPT ![p] = NoGesture]
    /\ draggingRef' = FALSE
    /\ IF Active(p, gestures[p].sim) = 0
       THEN WithTarget(gestures[p].sim, 0, FALSE)
       ELSE UNCHANGED <<sim, orphans>>
    /\ nodes' = IF gestures[p].node >= 1
                THEN [nodes EXCEPT ![gestures[p].node] = Unpin(@)]
                ELSE nodes
    /\ lateCallbacks' = Late
    /\ UNCHANGED <<appVars, viewVars, feed, deliveries, mounted, propVars, drawVars, nodeAttr,
                   dots, stale, simulationRef, hoverVars>>

(***************************************************************************)
(* Hover enrichment: mouseover starts two fetches, each with its own then  *)
(* and catch.                                                              *)
(***************************************************************************)
EmptyInfo == [balance |-> Missing, company |-> Missing, error |-> FALSE]

Fields == {"balance", "company"}

\* node "mouseover"
MouseOver(i) ==
    /\ mounted
    /\ i \in 1..Len(nodes)
    /\ IF draggingRef
       THEN UNCHANGED hoverVars
       ELSE /\ hoveredNodeId' = nodes[i].id
            /\ hoveredNodeInfo' = EmptyInfo
            /\ fetches' = fetches \cup {[field |-> f, id |-> nodes[i].id] : f \in Fields}
    /\ UNCHANGED <<appVars, viewVars, feed, deliveries, mounted, propVars, drawVars, nodes,
                   nodeAttr, dots, stale, simVars, dragVars, lateCallbacks>>

\* node "mouseout"
MouseOut ==
    /\ mounted
    /\ nodes # <<>>
    /\ hoveredNodeId' = Null
    /\ hoveredNodeInfo' = NullObject
    /\ UNCHANGED <<appVars, viewVars, feed, deliveries, mounted, propVars, drawVars, nodes,
                   nodeAttr, dots, stale, simVars, dragVars, fetches,
                   lateCallbacks>>

\* setHoveredNodeInfo((prev) => ({...prev, [field]: value})) on success,
\* ({...prev, [field]: null, error: true}) in the catch
Enrich(prev, f, ok) ==
    LET base == IF prev = NullObject THEN EmptyInfo ELSE prev
    IN  IF ok THEN [base EXCEPT ![f.field] = <<f.field, f.id>>]
        ELSE [base EXCEPT ![f.field] = Null, !.error = TRUE]

\* A fetch settles and its then or catch handler runs; setState on an
\* unmounted component changes nothing
FetchSettles(f, ok) ==
    /\ MayRun
    /\ f \in fetches
    /\ fetches' = fetches \ {f}
    /\ hoveredNodeInfo' = IF mounted THEN Enrich(hoveredNodeInfo, f, ok)
                          ELSE hoveredNodeInfo
    /\ lateCallbacks' = Late
    /\ UNCHANGED <<appVars, viewVars, feed, deliveries, mounted, propVars, drawVars, nodes,
                   nodeAttr, dots, stale, simVars, dragVars, hoveredNodeId>>

(***************************************************************************)
(* The flow dots: animateFlowDots / animateDot.                            *)
(***************************************************************************)
dotFrame == <<appVars, viewVars, feed, deliveries, mounted, propVars, drawVars, nodes, nodeAttr,
              simVars, dragVars, hoverVars>>

\* the 2000 ms transition ends: .on("end") starts the 200 ms fade
TravelEnds(i) ==
    /\ MayRun
    /\ i \in 1..Len(dots)
    /\ dots[i].phase = "traveling"
    /\ dots' = [dots EXCEPT ![i].phase = "fading"]
    /\ lateCallbacks' = Late
    /\ UNCHANGED <<dotFrame, stale>>

\* Faulty variant of FadeEnds: the next travel starts at once, with no timer.
FadeEndsNoWait(i) ==
    /\ MayRun
    /\ i \in 1..Len(dots)
    /\ dots[i].phase = "fading"
    /\ dots' = [dots EXCEPT ![i].phase = "traveling",
                            ![i].opacity = Num(DotOpacity)]
    /\ lateCallbacks' = Late
    /\ UNCHANGED <<dotFrame, stale>>

\* the fade ends at opacity 0; the dot still has a parent: setTimeout
FadeEnds(i) ==
    /\ MayRun
    /\ i \in 1..Len(dots)
    /\ dots[i].phase = "fading"
    /\ dots' = [dots EXCEPT ![i].phase = "waiting", ![i].opacity = Num(0)]
    /\ lateCallbacks' = Late
    /\ UNCHANGED <<dotFrame, stale>>

\* the timer fires: animateDot(dot, d)
TimerFires(i) ==
    /\ MayRun
    /\ i \in 1..Len(dots)
    /\ dots[i].phase = "waiting"
    /\ dots' = [dots EXCEPT ![i].phase = "traveling", ![i].opacity = Num(DotOpacity)]
    /\ lateCallbacks' = Late
    /\ UNCHANGED <<dotFrame, stale>>

\* The same three steps for a dot that selectAll("*").remove() took out of
\* its parent: nothing cancelled its transition or its timer, and only the
\* parentNode test at the end of the fade ends its loop.
StaleStep(from, to) ==
    /\ MayRun
    /\ stale[from] > 0
    /\ stale' = [ph \in Phases |->
                    IF ph = from THEN stale[ph] - 1
                    ELSE IF ph = to THEN stale[ph] + 1
                    ELSE stale[ph]]
    /\ lateCallbacks' = Late
    /\ UNCHANGED <<dotFrame, dots>>

StaleTravelEnds == StaleStep("traveling", "fading")
StaleFadeEnds == StaleStep("fading", "none")
StaleTimerFires == StaleStep("waiting", "traveling")

(***************************************************************************)
(* The unmount cleanup.  React detaches the svg ref when it removes the    *)
(* element; whether that happens before the effect cleanup runs depends on *)
(* the React version, so svgRef.current is either still set (refSet) or    *)
(* already null when the cleanup tests it.                                 *)
(***************************************************************************)
Unmount(refSet) ==
    /\ mounted
    /\ mounted' = FALSE
    /\ IF simulationRef # Null
       THEN sim' = [sim EXCEPT !.running = FALSE]
       ELSE UNCHANGED sim
    /\ simulationRef' = Null
    /\ panelRefs' = {}
    /\ IF refSet
       THEN /\ scene' = {}
            /\ links' = <<>>
            /\ linkAttr' = <<>>
            /\ nodes' = <<>>
            /\ nodeAttr' = <<>>
            /\ dots' = <<>>
            /\ stale' = Detach(dots, stale)
            /\ gestures' = Unrender(gestures, 0)
       ELSE UNCHANGED <<scene, links, linkAttr, nodes, nodeAttr, dots, stale,
                        gestures>>
    /\ UNCHANGED <<appVars, viewVars, feed, deliveries, propVars, graphDrawnRef, dimensions,
                   drawError, orphans, draggingRef, hoverVars, lateCallbacks>>

(***************************************************************************)
(* The zoom behaviour: zoom().scaleExtent([0.1, 4]).on("zoom", ...).  A    *)
(* wheel step doubles or halves the scale, a pan moves the translation     *)
(* along the diagonal.                                                     *)
(***************************************************************************)
ScaleMin == 10
ScaleMax == 400

MaxPan == 1

\* Faulty variant of Constrain: only the lower bound is enforced.
ConstrainMinOnly(k) == IF k < ScaleMin THEN ScaleMin ELSE k

\* d3-zoom: Math.max(scaleExtent[0], Math.min(scaleExtent[1], k))
Constrain(k) ==
    IF k < ScaleMin THEN ScaleMin ELSE IF k > ScaleMax THEN ScaleMax ELSE k

\* Faulty variant of zoomed: the handler writes the translation to the nodes.
zoomedMovesNodes(t) ==
    /\ transform' = t
    /\ gTransform' = t
    /\ nodes' = [i \in 1..Len(nodes) |-> [nodes[i] EXCEPT !.x = t.x, !.y = t.y]]
    /\ UNCHANGED <<appVars, feed, deliveries, mounted, propVars, drawVars,
                   nodeAttr, dots, stale, simVars, dragVars, hoverVars,
                   lateCallbacks>>

\* the "zoom" listener: g.attr("transform", event.transform)
zoomed(t) ==
    /\ transform' = t
    /\ gTransform' = t
    /\ UNCHANGED <<appVars, feed, deliveries, mounted, propVars, drawVars, nodes,
                   nodeAttr, dots, stale, simVars, dragVars, hoverVars,
                   lateCallbacks>>

\* the svg has the zoom listeners and can receive events
Zoomable == mounted /\ "zoom" \in scene

\* a wheel event on the svg
Wheel(in) ==
    /\ Zoomable
    /\ zoomed([transform EXCEPT
                  !.k = Constrain(IF in THEN transform.k * 2
                                  ELSE transform.k \div 2)])

\* a pan: the pointer drags the background by d
Pan(d) ==
    /\ Zoomable
    /\ transform.x + d \in -MaxPan..MaxPan
    /\ zoomed([transform EXCEPT !.x = @ + d, !.y = @ + d])

(***************************************************************************)
(* The Graph page around GraphLayout: node selection, the sidebar's tabs   *)
(* and the deployment info of the typed address.                           *)
(***************************************************************************)
layoutVars == <<feed, deliveries, mounted, propVars, drawVars, nodes, nodeAttr,
                dots, stale, simVars, dragVars, hoverVars, lateCallbacks,
                viewVars>>

\* .on("click", (_event, d) => { onNodeClickRef.current(d) }) on circle i,
\* and the page's handleNodeClick: setSelectedNode(node),
\* setCurrentTab("Dependency")
NodeClick(i) ==
    /\ mounted
    /\ i \in 1..Len(nodes)
    /\ invoked' = <<[callback |-> onNodeClickRef, node |-> nodes[i].id]>>
    /\ selectedNode' = nodes[i].id
    /\ currentTab' = "Dependency"
    /\ UNCHANGED <<layoutVars, deploymentInfo, deployFetches, onNodeClick,
                   onNodeClickRef, hook, firstDrawn>>

\* The application passes another function as onNodeClick: GraphLayout
\* renders again and useEffect(() => { onNodeClickRef.current = onNodeClick })
\* runs; nothing is redrawn, and the listeners useGraphVisualization has
\* attached keep the function they closed over.
CallbackChange(f) ==
    /\ mounted
    /\ f # onNodeClick
    /\ onNodeClick' = f
    /\ onNodeClickRef' = f
    /\ UNCHANGED <<layoutVars, pageVars, invoked, hook, firstDrawn>>

\* tab bar onClick: if (tab !== "Dependency" || selectedNode) setActiveTab(tab)
TabClick(tab) ==
    /\ mounted
    /\ tab # "Dependency" \/ selectedNode # Null
    /\ currentTab' = tab
    /\ UNCHANGED <<layoutVars, selectedNode, deploymentInfo, deployFetches,
                   clickVars, hook, firstDrawn>>

\* the Clear button, rendered while activeTab === "Dependency" && selectedNode
ClearClick ==
    /\ mounted
    /\ currentTab = "Dependency"
    /\ selectedNode # Null
    /\ selectedNode' = Null
    /\ currentTab' = "Risk Details"
    /\ UNCHANGED <<layoutVars, deploymentInfo, deployFetches, clickVars, hook,
                   firstDrawn>>

\* await getDeploymentInfo(a) returns: setDeploymentInfo(info), or throws:
\* the catch block logs and leaves the state as it is
DeploymentInfoSettles(a, ok) ==
    /\ mounted
    /\ a \in deployFetches
    /\ deployFetches' = deployFetches \ {a}
    /\ deploymentInfo' = IF ok THEN [address |-> a] ELSE deploymentInfo
    /\ UNCHANGED <<layoutVars, currentTab, selectedNode, clickVars, hook,
                   firstDrawn>>

\* The user leaves the Graph page (Unmount) and navigates back to /graph:
\* ContractGraph, useGraphAnalysis and GraphLayout mount with their initial
\* state; the AppProvider is above the routes and keeps currentTab.
\* Requests of the earlier instance no longer reach any state.
NavigateBack ==
    /\ ~mounted
    /\ ~drawError
    /\ mounted' = TRUE
    /\ jsonData' = NullObject
    /\ highlightAddress' = Null
    /\ inputAddress' = <<>>
    /\ graphDrawnRef' = FALSE
    /\ dimensions' = FALSE
    /\ panelRefs' = {}
    /\ scene' = {}
    /\ links' = <<>>
    /\ linkAttr' = <<>>
    /\ nodes' = <<>>
    /\ nodeAttr' = <<>>
    /\ stale' = Detach(dots, stale)
    /\ dots' = <<>>
    /\ simulationRef' = Null
    /\ sim' = NullObject
    /\ draggingRef' = FALSE
    /\ gestures' = [p \in Pointers |-> NoGesture]
    /\ hoveredNodeId' = Null
    /\ hoveredNodeInfo' = NullObject
    /\ fetches' = {}
    /\ transform' = zoomIdentity
    /\ gTransform' = NullObject
    /\ selectedNode' = Null
    /\ deploymentInfo' = NullObject
    /\ deployFetches' = {}
    /\ onNodeClick' = "handleNodeClick"
    /\ onNodeClickRef' = "handleNodeClick"
    /\ firstDrawn' = NothingDrawn
    /\ UNCHANGED <<feed, deliveries, drawError, orphans, lateCallbacks,
                   currentTab, invoked, hook>>

(***************************************************************************)
(* useGraphVisualization(onNodeClick): the same drawing as a hook, driven  *)
(* by its caller through drawGraph(data) and cleanup().                    *)
(***************************************************************************)
hookFrame == <<layoutVars, pageVars, clickVars, firstDrawn>>

\* drawGraph(data) of the hook: if (graphDrawnRef.current || !svgRef.current)
\* return; the flag is cleared by cleanup() alone.  data records the payload
\* the caller passed last.
HookDraw(p) ==
    /\ hook.data # p
    /\ hook' =
         IF hook.graphDrawnRef THEN [hook EXCEPT !.data = p]
         ELSE IF BuildThrows(p)
         THEN [hook EXCEPT !.data = p, !.links = <<>>, !.nodes = <<>>,
                           !.listener = Null]
         ELSE [graphDrawnRef |-> TRUE, simulationRef |-> TRUE, data |-> p,
               links |-> BuildLinks(p),
               nodes |-> BuildNodes(p, BuildNodeSet(BuildLinks(p))),
               listener |-> onNodeClick]
    /\ UNCHANGED hookFrame

\* .on("click", (_event, d) => { onNodeClick(d) }) on circle i of the hook
HookClick(i) ==
    /\ i \in 1..Len(hook.nodes)
    /\ invoked' = <<[callback |-> hook.listener, node |-> hook.nodes[i].id]>>
    /\ UNCHANGED <<layoutVars, pageVars, onNodeClick, onNodeClickRef, hook,
                   firstDrawn>>

\* cleanup() of the hook
HookCleanup ==
    /\ hook # NewHook
    /\ hook' = NewHook
    /\ UNCHANGED hookFrame

(***************************************************************************)
(* The component under the payloads of the graph page.                     *)
(***************************************************************************)
\* The scenario payload of the specification: one edge 0xAAA -> 0xBBB.
SingleEdge ==
    [address |-> Addr("A"),
     edges |-> <<[source |-> Addr("A"), target |-> Addr("B"),
                  types |-> <<Entry("call", 3)>>]>>]

\* The pointer moves along the diagonal.
PointerAt == {<<c, c>> : c \in Coords}

ViewPayloads ==
    { SingleEdge,
      [address |-> Addr("a"),
       edges |-> <<[source |-> Addr("B"), target |-> Addr("A"),
                    types |-> <<Entry("call", 2)>>],
                   [source |-> Addr("B"), target |-> Addr("C"),
                    types |-> <<Entry("staticcall", 1)>>]>>],
      [address |-> Addr("A"), edges |-> <<>>] }

InputAddresses == {<<>>, Addr("A")}

\* the addresses typed on the Graph page
PageAddresses == {<<>>, Addr("A"), Addr("B")}

Init == InitWith(ViewPayloads)

Next ==
    \/ \E i \in 1..Len(nodes) : NodeClick(i)
    \/ \E f \in Callbacks : CallbackChange(f)
    \/ \E tab \in Tabs : TabClick(tab)
    \/ ClearClick
    \/ \E a \in PageAddresses : \E ok \in BOOLEAN : DeploymentInfoSettles(a, ok)
    \/ NavigateBack
    \/ \E p \in feed : HookDraw(p)
    \/ \E i \in 1..Len(hook.nodes) : HookClick(i)
    \/ HookCleanup
    \/ Deliver
    \/ PayloadCleared
    \/ \E e \in 1..(IF jsonData = NullObject \/ jsonData.edges = NoEdges
                    THEN 0 ELSE Len(jsonData.edges)) : RowClick(e)
    \/ \E a \in InputAddresses : InputAddressChange(a)
    \/ \E d \in Coords : Tick(d)
    \/ \E k \in 1..Len(orphans) : OrphanTick(k)
    \/ \E p \in Pointers : \E i \in 1..Len(nodes) : DragStart(p, i)
    \/ \E p \in Pointers : \E at \in PointerAt : DragMove(p, at[1], at[2])
    \/ \E p \in Pointers : DragEnd(p)
    \/ \E i \in 1..Len(nodes) : MouseOver(i)
    \/ MouseOut
    \/ \E f \in fetches : \E ok \in BOOLEAN : FetchSettles(f, ok)
    \/ \E i \in 1..Len(dots) : TravelEnds(i)
    \/ \E i \in 1..Len(dots) : FadeEnds(i)
    \/ \E i \in 1..Len(dots) : TimerFires(i)
    \/ StaleTravelEnds
    \/ StaleFadeEnds
    \/ StaleTimerFires
    \/ \E in \in BOOLEAN : Wheel(in)
    \/ \E d \in {-1, 1} : Pan(d)
    \/ \E refSet \in BOOLEAN : Unmount(refSet)

Spec == Init /\ [][Next]_vars

(***************************************************************************)
(* Parts of Next.  Each keeps every action that writes the variables its   *)
(* properties read, and every action that writes a variable those actions  *)
(* read; the actions left out change nothing these can see.                *)
(***************************************************************************)
DotSteps ==
    \/ \E i \in 1..Len(dots) : TravelEnds(i)
    \/ \E i \in 1..Len(dots) : FadeEnds(i)
    \/ \E i \in 1..Len(dots) : TimerFires(i)

\* Highlighting: the props, the draw and the element attributes.
NextHighlight ==
    \/ Deliver
    \/ PayloadCleared
    \/ \E e \in 1..(IF jsonData = NullObject \/ jsonData.edges = NoEdges
                    THEN 0 ELSE Len(jsonData.edges)) : RowClick(e)
    \/ \E a \in InputAddresses : InputAddressChange(a)
    \/ DotSteps
    \/ \E refSet \in BOOLEAN : Unmount(refSet)

SpecHighlight == Init /\ [][NextHighlight]_vars

\* Dragging: the nodes, the gestures and the simulation.
NextDrag ==
    \/ Deliver
    \/ \E d \in Coords : Tick(d)
    \/ \E p \in Pointers : \E i \in 1..Len(nodes) : DragStart(p, i)
    \/ \E p \in Pointers : \E at \in PointerAt : DragMove(p, at[1], at[2])
    \/ \E p \in Pointers : DragEnd(p)
    \/ \E refSet \in BOOLEAN : Unmount(refSet)

\* The component under the scenario payload alone.
InitScenario == InitWith({SingleEdge})

SpecDrag == InitScenario /\ [][NextDrag]_vars

\* Teardown: what is scheduled when the component unmounts.
NextTeardown ==
    \/ Deliver
    \/ \E d \in Coords : Tick(d)
    \/ \E i \in 1..Len(nodes) : MouseOver(i)
    \/ MouseOut
    \/ \E f \in fetches : \E ok \in BOOLEAN : FetchSettles(f, ok)
    \/ DotSteps
    \/ StaleTravelEnds
    \/ StaleFadeEnds
    \/ StaleTimerFires
    \/ \E refSet \in BOOLEAN : Unmount(refSet)

SpecTeardown == InitScenario /\ [][NextTeardown]_vars

(***************************************************************************)
(* Highlighting.                                                           *)
(***************************************************************************)
Focused == mounted /\ jsonData # NullObject /\ highlightAddress # Null

\* C6: highlighting is idempotent.  In every state where the highlight
\* effect has run for the focused address, running it once more for the
\* same address leaves the opacity and stroke width of every node and the
\* stroke opacity and stroke colour of every link as they are.
C6_HighlightIdempotent ==
    Focused =>
        LET again == HighlightEffect(jsonData, highlightAddress, nodeAttr,
                                     dots, linkAttr, links)
        IN  /\ again.nodeAttr = nodeAttr
            /\ again.linkAttr = linkAttr

\* C6 witness: a focus is set on a drawn graph, one node is dimmed and one
\* link is raised, so the effect has run and has changed the elements.
C6_Witness ==
    /\ Focused
    /\ \E i \in 1..Len(nodeAttr) : nodeAttr[i].opacity = Num(DimOpacity)
    /\ \E i \in 1..Len(nodeAttr) : nodeAttr[i].strokeWidth = Num(FocusStrokeWidth)
    /\ \E i \in 1..Len(linkAttr) : linkAttr[i].strokeOpacity = FocusStrokeOpacity

Touches(l, a) == a \in {toLowerCase(l.source), toLowerCase(l.target)}

\* C10: under Focused(a) the node whose lower-case address is a has full
\* opacity and every other node the dimmed one; a link with a as an endpoint
\* has full stroke opacity and is coloured direct if the payload address is
\* one of its endpoints, transitive if not; every other link is dimmed.  In
\* the single-edge graph with subject 0xAAA, the focus on 0xBBB leaves node
\* 0xBBB and the link at full opacity and the link coloured direct.
C10_FocusDimsTheRest ==
    Focused =>
        /\ \A i \in 1..Len(nodes) :
              nodeAttr[i].opacity =
                  IF toLowerCase(nodes[i].id) = highlightAddress
                  THEN Num(FullOpacity) ELSE Num(DimOpacity)
        /\ \A i \in 1..Len(links) :
              IF Touches(links[i], highlightAddress)
              THEN /\ linkAttr[i].strokeOpacity = FocusStrokeOpacity
                   /\ linkAttr[i].stroke =
                          IF Touches(links[i], toLowerCase(jsonData.address))
                          THEN DirectStroke ELSE TransitiveStroke
              ELSE linkAttr[i].strokeOpacity = DimStrokeOpacity
        /\ (jsonData = SingleEdge /\ highlightAddress = toLowerCase(Addr("B"))) =>
              /\ Len(nodes) = 2 /\ Len(links) = 1
              /\ nodeAttr[2].opacity = Num(FullOpacity)
              /\ linkAttr[1].strokeOpacity = FocusStrokeOpacity
              /\ linkAttr[1].stroke = DirectStroke

\* C10 witness: the focus is on the subject, written in another case than
\* the payload address: a link into the subject is raised and coloured
\* direct, another link is dimmed, one node is raised and another dimmed.
C10_Witness ==
    /\ Focused
    /\ \E i \in 1..Len(links) :
          /\ toLowerCase(links[i].target) = highlightAddress
          /\ links[i].target # jsonData.address
          /\ toLowerCase(links[i].target) = toLowerCase(jsonData.address)
          /\ linkAttr[i].strokeOpacity = FocusStrokeOpacity
          /\ linkAttr[i].stroke = DirectStroke
    /\ \E i \in 1..Len(links) : linkAttr[i].strokeOpacity = DimStrokeOpacity
    /\ \E i \in 1..Len(nodes) : nodeAttr[i].opacity = Num(FullOpacity)
    /\ \E i \in 1..Len(nodes) : nodeAttr[i].opacity = Num(DimOpacity)

(***************************************************************************)
(* Dragging.                                                               *)
(***************************************************************************)
Free(n) == n.fx \in {Missing, Null} /\ n.fy \in {Missing, Null}

Dragged(i) == \E p \in Pointers : gestures[p] # NoGesture /\ gestures[p].node = i

\* the step in which the gesture of pointer p ends on a rendered node
EndUnpins(p) ==
    (/\ gestures[p] # NoGesture
     /\ gestures[p].node >= 1
     /\ gestures'[p] = NoGesture)
        => /\ nodes'[gestures[p].node].fx = Null
           /\ nodes'[gestures[p].node].fy = Null

\* C7: pin/unpin round trip.  The step that ends a drag on a node leaves
\* that node with fx = null and fy = null, whatever moves came before it,
\* and in every state, after any number of drag cycles, a node that no
\* pointer is dragging is free (no fx, no fy).
C7_PinUnpinRoundTrip ==
    /\ [](\A i \in 1..Len(nodes) : Dragged(i) \/ Free(nodes[i]))
    /\ [][\A p \in Pointers : EndUnpins(p)]_vars

\* C7 witness: a drag on a node has ended: its fx and fy are null (a node
\* never dragged has them undefined), and no gesture is in progress.
C7_Witness ==
    /\ \A p \in Pointers : gestures[p] = NoGesture
    /\ ~draggingRef
    /\ \E i \in 1..Len(nodes) : nodes[i].fx = Null /\ nodes[i].fy = Null

(***************************************************************************)
(* Teardown.                                                               *)
(***************************************************************************)
\* C5: teardown is total.  The count of callbacks that ran after the
\* unmount cleanup stays 0 in every reachable state.
C5_NoCallbackAfterUnmount == lateCallbacks = 0

(***************************************************************************)
(* The simulations: the one of the rendered graph and those of the graphs  *)
(* it replaced.                                                            *)
(***************************************************************************)
NextSim ==
    \/ Deliver
    \/ \E d \in Coords : Tick(d)
    \/ \E k \in 1..Len(orphans) : OrphanTick(k)
    \/ \E p \in Pointers : \E i \in 1..Len(nodes) : DragStart(p, i)
    \/ \E p \in Pointers : \E at \in PointerAt : DragMove(p, at[1], at[2])
    \/ \E p \in Pointers : DragEnd(p)
    \/ \E refSet \in BOOLEAN : Unmount(refSet)

SpecSim == InitScenario /\ [][NextSim]_vars

\* the simulations whose timer is running
Running ==
    {k \in 1..Len(orphans) : orphans[k].running}
        \cup (IF sim # NullObject /\ sim.running THEN {0} ELSE {})

\* C11: re-entrancy guard.  In every reachable state at most one simulation
\* is running: the one of an earlier payload was stopped before the new one
\* started, so none of its ticks can fire after the new draw.
C11_AtMostOneSimulatorRunning == Cardinality(Running) <= 1

(***************************************************************************)
(* Hover enrichment and the hover card.                                    *)
(***************************************************************************)
NextHover ==
    \/ Deliver
    \/ \E i \in 1..Len(nodes) : MouseOver(i)
    \/ MouseOut
    \/ \E f \in fetches : \E ok \in BOOLEAN : FetchSettles(f, ok)
    \/ \E p \in Pointers : \E i \in 1..Len(nodes) : DragStart(p, i)
    \/ \E p \in Pointers : DragEnd(p)
    \/ \E refSet \in BOOLEAN : Unmount(refSet)

SpecHover == InitScenario /\ [][NextHover]_vars

\* a field of the hover info holds a value that a fetch returned
Fetched(v) == v \notin {Missing, Null}

\* C12: a result for a node that is no longer hovered is discarded.  The
\* hover info holds no value fetched for another node than the hovered one,
\* and it is empty (null) while no node is hovered.
C12_NoStaleEnrichment ==
    /\ hoveredNodeId = Null => hoveredNodeInfo = NullObject
    /\ hoveredNodeInfo # NullObject =>
          \A field \in Fields :
              Fetched(hoveredNodeInfo[field]) =>
                  hoveredNodeInfo[field] = <<field, hoveredNodeId>>

\* NodeHoverCard: what the card shows for each field; the card is rendered
\* when hoveredNodeId and hoveredNodeInfo are both set
Placeholder == [balance |-> <<"placeholder", "500">>,
                company |-> <<"placeholder", "CCinc">>]

NodeHoverCard(nodeInfo) ==
    IF nodeInfo = NullObject \/ nodeInfo = EmptyInfo
    THEN [field \in Fields |-> <<"Loading node data...">>]
    ELSE IF nodeInfo.error
    THEN [field \in Fields |-> Placeholder[field]]
    ELSE [field \in Fields |-> nodeInfo[field]]

CardShown == mounted /\ hoveredNodeId # Null /\ hoveredNodeInfo # NullObject

\* C13: the two lookups fail independently.  When one lookup has failed and
\* the other has returned a value, the card shows that value for its field;
\* the failure of one never hides or replaces the value of the other.
C13_LookupsFailIndependently ==
    CardShown =>
        \A field \in Fields :
            Fetched(hoveredNodeInfo[field]) =>
                NodeHoverCard(hoveredNodeInfo)[field] = hoveredNodeInfo[field]

\* C19: the dragging flag is set exactly while a drag is in progress, from
\* the start of a gesture on a node to its end.
C19_FlagIffDragging ==
    mounted => (draggingRef <=> \E p \in Pointers : gestures[p] # NoGesture)

(***************************************************************************)
(* The drawn guard.                                                        *)
(***************************************************************************)
\* the simulations created so far: one per graph built
Builds == Len(orphans) + (IF sim = NullObject THEN 0 ELSE 1)

\* a step that builds a graph or clears the guard
Rebuilds ==
    \/ Len(orphans') # Len(orphans)
    \/ sim = NullObject /\ sim' # NullObject
    \/ graphDrawnRef /\ ~graphDrawnRef'

Malformed(data) == data.address = Missing \/ data.edges = NoEdges

\* C15: a payload without address or without edges fails fast.  Once it has
\* arrived the graph is not marked as drawn, the failure is reported, and no
\* scene element, zoom behaviour or simulation was created for it.
C15_MalformedFailsFast ==
    (jsonData # NullObject /\ Malformed(jsonData)) =>
        /\ ~graphDrawnRef
        /\ drawError
        /\ mounted => scene = {}
        /\ panelRefs = {}
        /\ simulationRef = Null

(***************************************************************************)
(* Termination of the simulation.  The timer of a running simulation fires *)
(* on every animation frame, so a tick that stays possible happens.        *)
(***************************************************************************)
SpecSimFair == SpecSim /\ WF_vars(\E d \in Coords : Tick(d))

NoDrag == \A p \in Pointers : gestures[p] = NoGesture

\* the simulation of the rendered graph is running with alphaTarget 0
Settling == sim # NullObject /\ sim.running /\ sim.alphaTarget = 0

\* a step that starts the timer of the simulation of the rendered graph
Starts == sim' # NullObject /\ sim'.running /\ (sim = NullObject \/ ~sim.running)

\* C16: termination is energy-based.  With no drag in progress alphaTarget
\* is 0; a simulation running with alphaTarget 0 eventually is not (it has
\* stopped, or a drag has raised alphaTarget); a tick that takes alpha under
\* the threshold stops the timer; and a stopped timer is started again only
\* by a drag start (or replaced by the simulation of a new payload).
C16_EnergyBasedTermination ==
    /\ []((NoDrag /\ sim # NullObject) => sim.alphaTarget = 0)
    /\ (Settling ~> ~Settling)
    /\ [][(sim # NullObject /\ sim' # NullObject /\ sim'.alpha # sim.alpha
             /\ sim'.alpha < AlphaStop) => ~sim'.running]_vars
    /\ [][Starts => (gestures' # gestures \/ deliveries' # deliveries)]_vars

\* C16 witness: after a drag raised alphaTarget and ended, the simulation
\* has cooled under the threshold and its timer is stopped.
C16_Witness ==
    /\ mounted
    /\ NoDrag
    /\ sim # NullObject
    /\ ~sim.running
    /\ sim.alpha < AlphaStop
    /\ \E i \in 1..Len(nodes) : nodes[i].fx = Null

(***************************************************************************)
(* The viewport.                                                           *)
(***************************************************************************)
NextZoom ==
    \/ Deliver
    \/ \E e \in 1..(IF jsonData = NullObject \/ jsonData.edges = NoEdges
                    THEN 0 ELSE Len(jsonData.edges)) : RowClick(e)
    \/ \E p \in Pointers : \E i \in 1..Len(nodes) : DragStart(p, i)
    \/ \E p \in Pointers : DragEnd(p)
    \/ \E in \in BOOLEAN : Wheel(in)
    \/ \E d \in {-1, 1} : Pan(d)
    \/ \E refSet \in BOOLEAN : Unmount(refSet)

SpecZoom == InitScenario /\ [][NextZoom]_vars

InExtent(t) == ScaleMin <= t.k /\ t.k <= ScaleMax

\* C17: the scale of the viewport transform, the one the svg keeps and the
\* one written to the group, is within [0.1, 4] in every reachable state.
C17_ScaleWithinExtent ==
    /\ InExtent(transform)
    /\ gTransform # NullObject => InExtent(gTransform)

\* C17 witness: the wheel has taken the scale to the upper bound.
C17_Witness == gTransform # NullObject /\ gTransform.k = ScaleMax

\* C18: a step that changes the viewport transform changes nothing but the
\* transform of the group: the nodes with their positions and pins, the
\* simulations, the focus and the attributes of the elements stay.
C18_ZoomChangesOnlyTheTransform ==
    [][transform' # transform =>
          UNCHANGED <<nodes, simVars, propVars, nodeAttr, linkAttr, dots,
                      links, dragVars, hoverVars>>]_vars

\* C18 witness: the viewport is zoomed and panned while a node is pinned by
\* a drag, the simulation is heated and a focus is set.
C18_Witness ==
    /\ gTransform # NullObject
    /\ gTransform.k # 100
    /\ gTransform.x # 0
    /\ highlightAddress # Null
    /\ sim # NullObject
    /\ sim.alphaTarget = DragAlphaTarget
    /\ \E i \in 1..Len(nodes) : nodes[i].fx \notin {Missing, Null}

(***************************************************************************)
(* Node order.                                                             *)
(***************************************************************************)
\* the endpoints in the order of the scan: per link its source, then its target
Scan(ls) ==
    [j \in 1..(2 * Len(ls)) |->
        IF j % 2 = 1 THEN ls[(j + 1) \div 2].source ELSE ls[j \div 2].target]

FirstAt(scan, a) ==
    CHOOSE j \in 1..Len(scan) :
        scan[j] = a /\ \A k \in 1..(j - 1) : scan[k] # a

\* C20: the node sequence of a drawn payload lists every endpoint of its
\* links once, in the order of first appearance in the scan of the links in
\* edge order, source before target.  The sequence is a function of the
\* payload, so two builds of one payload give the same sequence.
C20_NodesInFirstAppearanceOrder ==
    (graphDrawnRef /\ jsonData # NullObject) =>
        LET scan == Scan(links)
        IN  /\ {nodes[i].id : i \in 1..Len(nodes)}
                   = {scan[j] : j \in 1..Len(scan)}
            /\ \A i, j \in 1..Len(nodes) :
                  i < j => FirstAt(scan, nodes[i].id) < FirstAt(scan, nodes[j].id)
            /\ [i \in 1..Len(nodes) |-> nodes[i].id]
                   = BuildNodeSet(BuildLinks(jsonData))

\* C20 witness: three nodes from links in which an address occurs again
\* after another one was first seen.
C20_Witness ==
    /\ graphDrawnRef
    /\ Len(nodes) = 3
    /\ Len(links) >= 2
    /\ links[2].source = links[1].source
    /\ links[2].target # links[1].target

(***************************************************************************)
(* The alpha target under drags.                                           *)
(***************************************************************************)
SimOf(k) == IF k = 0 THEN sim ELSE orphans[k]

\* a gesture of the drag behaviour of simulation k is in progress
DragOn(k) == \E p \in Pointers : gestures[p] # NoGesture /\ gestures[p].sim = k

NextPhase(ph) ==
    IF ph = "traveling" THEN "fading"
    ELSE IF ph = "fading" THEN "waiting" ELSE "traveling"

\* the dots of the rendered graph are the same elements before and after
SameDots == deliveries' = deliveries /\ Len(dots') = Len(dots)

C23_RemovedDotsAreCancelled ==
    mounted => \A ph \in Phases : stale[ph] = 0

\* The highlight state Neutral on a drawn graph.
Neutral == mounted /\ jsonData # NullObject /\ highlightAddress = Null

C26_FocusIsADrawnNode ==
    Focused => \E i \in 1..Len(nodes) : toLowerCase(nodes[i].id) = highlightAddress

\* C27: a step that changes the focus leaves the opacity of every flow dot
\* as it was.
C27_HighlightKeepsDotOpacity ==
    [][highlightAddress' # highlightAddress /\ mounted' /\ SameDots =>
          \A i \in 1..Len(dots) : dots'[i].opacity = dots[i].opacity]_vars

(***************************************************************************)
(* GraphLayout and useGraphVisualization side by side, fed by the same     *)
(* application.                                                            *)
(***************************************************************************)
NextHook ==
    \/ Deliver
    \/ \E p \in feed : HookDraw(p)
    \/ \E f \in Callbacks : CallbackChange(f)
    \/ \E i \in 1..Len(nodes) : NodeClick(i)
    \/ \E i \in 1..Len(hook.nodes) : HookClick(i)
    \/ HookCleanup

SpecHook == Init /\ [][NextHook]_vars

\* The click handler of GraphLayout alone: one invocation, of the function
\* passed last.
GraphLayoutCallsLatest ==
    [][(\E i \in 1..Len(nodes) : NodeClick(i)) =>
          /\ Len(invoked') = 1
          /\ invoked'[1].callback = onNodeClick]_vars

\* C24: a click on a node invokes one callback, the onNodeClick passed
\* last, with the Node of the clicked circle, in GraphLayout and in
\* useGraphVisualization alike.
C24_ClickCallsLatestCallback ==
    [][invoked' # invoked =>
          /\ Len(invoked') = 1
          /\ invoked'[1].callback = onNodeClick
          /\ \/ \E i \in 1..Len(nodes) : nodes[i].id = invoked'[1].node
             \/ \E i \in 1..Len(hook.nodes) : hook.nodes[i].id = invoked'[1].node]_vars

\* id and group of the Node objects, without the simulation's coordinates
Logical(ns) == [i \in 1..Len(ns) |-> [id |-> ns[i].id, group |-> ns[i].group]]

\* C28: when both implementations were last fed the same payload, both
\* show the nodes and links built from it.
C28_BothDrawTheSamePayload ==
    (mounted /\ jsonData # NullObject /\ hook.data = jsonData) =>
        /\ Logical(hook.nodes) = Logical(nodes)
        /\ hook.links = links

(***************************************************************************)
(* The Graph page: typing addresses, selecting nodes, the tabs, leaving    *)
(* the page and coming back.                                               *)
(***************************************************************************)
NextPage ==
    \/ Deliver
    \/ \E a \in PageAddresses : InputAddressChange(a)
    \/ \E a \in PageAddresses : \E ok \in BOOLEAN : DeploymentInfoSettles(a, ok)
    \/ \E i \in 1..Len(nodes) : NodeClick(i)
    \/ \E tab \in Tabs : TabClick(tab)
    \/ ClearClick
    \/ \E refSet \in BOOLEAN : Unmount(refSet)
    \/ NavigateBack

SpecPage == Init /\ [][NextPage]_vars

\* C29: a deployment info that is shown belongs to the address typed now.
C29_DeploymentInfoIsCurrent ==
    (mounted /\ deploymentInfo # NullObject) =>
        deploymentInfo.address = inputAddress

\* C30: the active tab is "Dependency" only while a node is selected.
C30_DependencyTabNeedsSelection ==
    (mounted /\ currentTab = "Dependency") => selectedNode # Null

====
